---- MODULE Spec2Model ----
(***************************************************************************)
(* Mesmerisation tracking of the player (crawl-ref/source/behold.cc):      *)
(* the list of beholders, the DUR_MESMERISED counter, the                  *)
(* DUR_MESMERISE_IMMUNE window and the messages each method prints.        *)
(* Every method runs to completion (single-threaded, turn based), so each  *)
(* method is one action; the messages it prints are recorded together with *)
(* what a handler re-entering beheld() would see at that moment.           *)
(***************************************************************************)
EXTENDS Integers, Sequences, FiniteSets, TLC

\* ---------------------------------------------------------------- bounds
NumMonsters == 2      \* monsters in the registry (mids 1..NumMonsters)
MaxDuration == 20     \* add_beholder is not taken past this counter value
MaxCoord    == 2      \* cells 0..MaxCoord of the row the actors stand in
MaxFlips    == 3      \* facts of a monster that differ from the siren's

\* ------------------------------------------------------ program constants
MesmeriseMin == 7
MesmeriseMax == 15
ExtendMin    == 5
ExtendMax    == 8
DurationCap  == 15
ImmuneMin    == 21
ImmuneMax    == 40
NullMon      == 0     \* nullptr / a mid that names no monster

Mids == 1..NumMonsters

\* coord_def: a cell of one row of the map.
Cells == 0..MaxCoord

VARIABLES
    beholders,   \* player::beholders, vector<mid_t>
    duration,    \* duration[DUR_MESMERISED]
    immune,      \* duration[DUR_MESMERISE_IMMUNE]
    mons,        \* the monster registry: mid -> monster
    sanctuary,   \* is_sanctuary(you.pos())
    silencedYou, \* silenced(you.pos())
    demonAxe,    \* player_equip_unrand(UNRAND_DEMON_AXE)
    arena,       \* crawl_state.game_is_arena()
    where,       \* positions: you.pos() and each monster's pos()
    msgs,        \* messages printed by the last method call, in order
    lastOp,      \* the last method called and its arguments
    result,      \* the value the last const method returned
    fault        \* TRUE once the program has crashed

vars == <<beholders, duration, immune, mons, sanctuary, silencedYou,
          demonAxe, arena, where, msgs, lastOp, result, fault>>

world == <<mons, sanctuary, silencedYou, demonAxe, arena, where>>

\* ------------------------------------------------------------- monsters
\* A monster as behold.cc reads it.  exists = FALSE: monster_by_mid finds
\* nothing for the mid.
Siren ==
    [exists |-> TRUE, alive |-> TRUE, submerged |-> FALSE,
     los |-> TRUE,            \* cell_see_cell(you.pos(), mon.pos(), LOS_SOLID_SEE)
     sees_you |-> TRUE,       \* mon.see_cell_no_trans(you.pos())
     wont_attack |-> FALSE, pacified |-> FALSE,
     siren |-> TRUE,          \* mons_is_siren_beholder(mon)
     has_spell |-> FALSE,     \* mon.has_spell(SPELL_MESMERISE)
     is_silenced |-> FALSE,   \* mon.is_silenced()
     pos_silenced |-> FALSE,  \* silenced(mon.pos())
     confused |-> FALSE, asleep |-> FALSE, cannot_move |-> FALSE,
     berserk |-> FALSE, fleeing |-> FALSE,
     see_cell |-> TRUE,       \* you.see_cell(mon.pos())
     can_see |-> TRUE]        \* you.can_see(mon)

Gone == [f \in DOMAIN Siren |-> FALSE]

\* The monster states the registry takes in the main specification.
MonsterStates ==
    { Gone,
      Siren,
      [Siren EXCEPT !.confused = TRUE],
      [Siren EXCEPT !.alive = FALSE],
      [Siren EXCEPT !.siren = FALSE, !.has_spell = TRUE, !.asleep = TRUE] }

\* A monster& or monster* argument: the mid of a monster of the registry.
Monsters == {m \in Mids : mons[m].exists}

\* monster_by_mid: a pointer to the monster (its mid) or nullptr.
monster_by_mid(mid) ==
    IF mid \in DOMAIN mons /\ mons[mid].exists THEN mid ELSE NullMon

\* ------------------------------------------------------------- helpers
\* The draws explored are the two ends of the range.
random_range(lo, hi) == {x \in lo..hi : x = lo \/ x = hi}

\* The two phrasings coinflip() chooses between.
coinflip == {"break_out_of_daze", "no_longer_entranced"}

\* The part of the player a method reads and writes while it runs.
You == [beholders |-> beholders, duration |-> duration,
        immune |-> immune, msgs |-> <<>>]

\* mpr/mprf: the message, and what a handler that re-enters the player's
\* state at this moment sees.
mpr(s, kind, mid, text) ==
    [s EXCEPT !.msgs = Append(@, [kind |-> kind, mid |-> mid, text |-> text,
                                  beholders |-> s.beholders,
                                  duration |-> s.duration])]

set_duration(s, turns, cap) == [s EXCEPT !.duration = turns]

\* Variant: the third argument is a ceiling of the resulting duration.
increase_duration_capped(s, turns, cap) ==
    [s EXCEPT !.duration = IF @ + turns > cap THEN cap ELSE @ + turns]

increase_duration(s, turns, cap) == [s EXCEPT !.duration = @ + turns]

push_back(s, mid) == [s EXCEPT !.beholders = Append(@, mid)]

\* Variant: the last entry is moved into the place of the erased one.
erase_swaps(s, i) ==
    [s EXCEPT !.beholders =
        IF i = Len(@) THEN SubSeq(@, 1, i - 1)
        ELSE SubSeq(@, 1, i - 1) \o <<@[Len(@)]>> \o SubSeq(@, i + 1, Len(@) - 1)]

erase(s, i) ==
    [s EXCEPT !.beholders = SubSeq(@, 1, i - 1) \o SubSeq(@, i + 1, Len(@))]

beheld_by(s, mid) == \E i \in DOMAIN s.beholders : s.beholders[i] = mid

\* beheld(): the value returned; the ASSERT is AssertBeheld.
beheld(s) == s.duration > 0

AssertBeheld(s) == (s.duration > 0) = (s.beholders # <<>>)

\* Index of the first entry equal to mid, 0 when absent (the scan of
\* remove_beholder and update_beholder).
find_first(s, mid) ==
    IF beheld_by(s, mid)
    THEN CHOOSE i \in DOMAIN s.beholders :
            /\ s.beholders[i] = mid
            /\ \A j \in 1..(i - 1) : s.beholders[j] # mid
    ELSE 0

\* ---------------------------------------------------- _removed_beholder
\* Variant: the duration is not reset when the list has become empty.
_removed_beholder_keeps_duration(s, quiet) ==
    IF s.beholders = <<>>
    THEN IF ~quiet
         THEN { mpr([s EXCEPT !.immune = r], "fully_released", NullMon, c) :
                  r \in random_range(ImmuneMin, ImmuneMax), c \in coinflip }
         ELSE { [s EXCEPT !.immune = r] :
                  r \in random_range(ImmuneMin, ImmuneMax) }
    ELSE {s}

\* Variant: the message is printed outside the test for an empty list.
_removed_beholder_msg_outside(s, quiet) ==
    LET done == IF s.beholders = <<>>
                THEN { [s EXCEPT !.duration = 0, !.immune = r] :
                         r \in random_range(ImmuneMin, ImmuneMax) }
                ELSE {s}
    IN  IF ~quiet
        THEN { mpr(d, "fully_released", NullMon, c) : d \in done, c \in coinflip }
        ELSE done

\* Variant: the message is printed whether quiet is set or not.
_removed_beholder_never_quiet(s, quiet) ==
    IF s.beholders = <<>>
    THEN { mpr([s EXCEPT !.duration = 0, !.immune = r],
               "fully_released", NullMon, c) :
             r \in random_range(ImmuneMin, ImmuneMax), c \in coinflip }
    ELSE {s}

\* Variant: nothing is done when the duration is 0 already.
_removed_beholder_once(s, quiet) ==
    IF s.beholders = <<>> /\ s.duration > 0
    THEN IF ~quiet
         THEN { mpr([s EXCEPT !.duration = 0, !.immune = r],
                    "fully_released", NullMon, c) :
                  r \in random_range(ImmuneMin, ImmuneMax), c \in coinflip }
         ELSE { [s EXCEPT !.duration = 0, !.immune = r] :
                  r \in random_range(ImmuneMin, ImmuneMax) }
    ELSE {s}

\* The states the call can end in: one per value of random_range and of
\* coinflip it draws.
_removed_beholder(s, quiet) ==
    IF s.beholders = <<>>
    THEN IF ~quiet
         THEN { mpr([s EXCEPT !.duration = 0, !.immune = r],
                    "fully_released", NullMon, c) :
                  r \in random_range(ImmuneMin, ImmuneMax), c \in coinflip }
         ELSE { [s EXCEPT !.duration = 0, !.immune = r] :
                  r \in random_range(ImmuneMin, ImmuneMax) }
    ELSE {s}

\* ------------------------------------------------ _removed_beholder_msg
\* Variant: the early return does not test mon.alive().
_removed_beholder_msg_dead(s, mon) ==
    IF mon = NullMon THEN s
    ELSE IF ~mons[mon].siren \/ mons[mon].submerged \/ ~mons[mon].see_cell
    THEN s
    ELSE mpr(s, "source_released", mon, "stops_singing")

\* Variant: the early return does not test mons_is_siren_beholder(mon).
_removed_beholder_msg_any(s, mon) ==
    IF mon = NullMon THEN s
    ELSE IF ~mons[mon].alive \/ mons[mon].submerged \/ ~mons[mon].see_cell
    THEN s
    ELSE mpr(s, "source_released", mon, "no_longer_mesmerising")

_removed_beholder_msg(s, mon) ==
    IF mon = NullMon THEN s
    ELSE LET m == mons[mon] IN
    IF ~m.alive \/ ~m.siren \/ m.submerged \/ ~m.see_cell THEN s
    ELSE IF sanctuary /\ ~m.fleeing
    THEN IF m.siren
         THEN IF m.can_see
              THEN mpr(s, "source_released", mon, "singing_muted")
              ELSE mpr(s, "source_released", mon, "something_muted")
         ELSE IF m.can_see
              THEN mpr(s, "source_released", mon, "less_mesmerising")
              ELSE mpr(s, "source_released", mon, "less_interesting")
    ELSE IF m.can_see
    THEN IF silencedYou \/ m.pos_silenced
         THEN IF m.siren
              THEN mpr(s, "source_released", mon, "no_longer_hear")
              ELSE mpr(s, "source_released", mon, "silence_clears")
         ELSE IF m.siren
              THEN mpr(s, "source_released", mon, "stops_singing")
              ELSE mpr(s, "source_released", mon, "no_longer_mesmerising")
    ELSE IF m.siren
         THEN mpr(s, "source_released", mon, "something_stops")
         ELSE mpr(s, "source_released", mon, "now_boring")

\* ---------------------------------------------------- possible_beholder
\* Variant: the demon axe stands for the whole condition.
possible_beholder_axe_first(mon) ==
    IF arena THEN FALSE
    ELSE \/ demonAxe
         \/ /\ mon # NullMon
            /\ LET m == mons[mon] IN
               /\ m.alive /\ ~m.submerged
               /\ m.los /\ m.sees_you
               /\ ~m.wont_attack /\ ~m.pacified
               /\ (m.siren \/ m.has_spell)
               /\ ~silencedYou
               /\ ~m.is_silenced
               /\ ~m.confused
               /\ ~m.asleep /\ ~m.cannot_move
               /\ ~m.berserk
               /\ ~m.fleeing
               /\ ~sanctuary

\* Variant: mon->submerged() is not tested.
possible_beholder_submerged(mon) ==
    IF arena THEN FALSE
    ELSE /\ mon # NullMon
         /\ LET m == mons[mon] IN
            /\ m.alive
            /\ m.los /\ m.sees_you
            /\ ~m.wont_attack /\ ~m.pacified
            /\ \/ /\ (m.siren \/ m.has_spell)
                  /\ ~silencedYou
                  /\ ~m.is_silenced
                  /\ ~m.confused
                  /\ ~m.asleep /\ ~m.cannot_move
                  /\ ~m.berserk
                  /\ ~m.fleeing
                  /\ ~sanctuary
               \/ demonAxe

\* Variant: the demon axe overrides the test for arena mode as well.
possible_beholder_arena_axe(mon) ==
    IF arena /\ ~demonAxe THEN FALSE
    ELSE /\ mon # NullMon
         /\ LET m == mons[mon] IN
            /\ m.alive /\ ~m.submerged
            /\ m.los /\ m.sees_you
            /\ ~m.wont_attack /\ ~m.pacified
            /\ \/ /\ (m.siren \/ m.has_spell)
                  /\ ~silencedYou
                  /\ ~m.is_silenced
                  /\ ~m.confused
                  /\ ~m.asleep /\ ~m.cannot_move
                  /\ ~m.berserk
                  /\ ~m.fleeing
                  /\ ~sanctuary
               \/ demonAxe

possible_beholder(mon) ==
    IF arena THEN FALSE
    ELSE /\ mon # NullMon
         /\ LET m == mons[mon] IN
            /\ m.alive /\ ~m.submerged
            /\ m.los /\ m.sees_you
            /\ ~m.wont_attack /\ ~m.pacified
            /\ \/ /\ (m.siren \/ m.has_spell)
                  /\ ~silencedYou
                  /\ ~m.is_silenced
                  /\ ~m.confused
                  /\ ~m.asleep /\ ~m.cannot_move
                  /\ ~m.berserk
                  /\ ~m.fleeing
                  /\ ~sanctuary
               \/ demonAxe

\* --------------------------------------------------------- add_beholder
\* The message of the branch taken in a sanctuary without the axe.
suppressed_msg(s, mon) ==
    IF mons[mon].siren
    THEN IF mons[mon].can_see
         THEN mpr(s, "engagement_suppressed", mon, "singing_muted")
         ELSE mpr(s, "engagement_suppressed", mon, "melody_muted")
    ELSE IF mons[mon].can_see
         THEN mpr(s, "engagement_suppressed", mon, "less_mesmerising")
         ELSE mpr(s, "engagement_suppressed", mon, "less_interesting")

\* Variant: the extending branch pushes without testing beheld_by(mon).
add_beholder_always_push(s, mon, axe) ==
    IF sanctuary /\ ~axe
    THEN {suppressed_msg(s, mon)}
    ELSE IF s.duration = 0
    THEN { LET s2 == push_back(set_duration(s, r, DurationCap), mon)
           IN  IF ~axe
               THEN mpr(s2, "engagement_started", mon, "mesmerised_by")
               ELSE s2 :
             r \in random_range(MesmeriseMin, MesmeriseMax) }
    ELSE { push_back(increase_duration(s, r, DurationCap), mon) :
             r \in random_range(ExtendMin, ExtendMax) }

\* Variant: the sanctuary branch prints its message and does not return.
add_beholder_no_return(s, mon, axe) ==
    LET s0 == IF sanctuary /\ ~axe THEN suppressed_msg(s, mon) ELSE s
    IN  IF s0.duration = 0
        THEN { LET s1 == set_duration(s0, r, DurationCap)
                   s2 == push_back(s1, mon)
               IN  IF ~axe
                   THEN mpr(s2, "engagement_started", mon, "mesmerised_by")
                   ELSE s2 :
                 r \in random_range(MesmeriseMin, MesmeriseMax) }
        ELSE { LET s1 == increase_duration(s0, r, DurationCap)
               IN  IF ~beheld_by(s1, mon) THEN push_back(s1, mon) ELSE s1 :
                 r \in random_range(ExtendMin, ExtendMax) }

\* Variant: the first engagement draws from the extension's range.
add_beholder_started_short(s, mon, axe) ==
    IF sanctuary /\ ~axe
    THEN {suppressed_msg(s, mon)}
    ELSE IF s.duration = 0
    THEN { LET s1 == set_duration(s, r, DurationCap)
               s2 == push_back(s1, mon)
           IN  IF ~axe
               THEN mpr(s2, "engagement_started", mon, "mesmerised_by")
               ELSE s2 :
             r \in random_range(ExtendMin, ExtendMax) }
    ELSE { LET s1 == increase_duration(s, r, DurationCap)
           IN  IF ~beheld_by(s1, mon) THEN push_back(s1, mon) ELSE s1 :
             r \in random_range(ExtendMin, ExtendMax) }

\* Variant: the extending branch calls set_duration, as the first one does.
add_beholder_extend_sets(s, mon, axe) ==
    IF sanctuary /\ ~axe
    THEN {suppressed_msg(s, mon)}
    ELSE IF s.duration = 0
    THEN { LET s1 == set_duration(s, r, DurationCap)
               s2 == push_back(s1, mon)
           IN  IF ~axe
               THEN mpr(s2, "engagement_started", mon, "mesmerised_by")
               ELSE s2 :
             r \in random_range(MesmeriseMin, MesmeriseMax) }
    ELSE { LET s1 == set_duration(s, r, DurationCap)
           IN  IF ~beheld_by(s1, mon) THEN push_back(s1, mon) ELSE s1 :
             r \in random_range(ExtendMin, ExtendMax) }

\* Variant: the sanctuary branch is taken whether or not axe is set.
add_beholder_ignores_axe(s, mon, axe) ==
    IF sanctuary
    THEN {suppressed_msg(s, mon)}
    ELSE IF s.duration = 0
    THEN { LET s1 == set_duration(s, r, DurationCap)
               s2 == push_back(s1, mon)
           IN  IF ~axe
               THEN mpr(s2, "engagement_started", mon, "mesmerised_by")
               ELSE s2 :
             r \in random_range(MesmeriseMin, MesmeriseMax) }
    ELSE { LET s1 == increase_duration(s, r, DurationCap)
           IN  IF ~beheld_by(s1, mon) THEN push_back(s1, mon) ELSE s1 :
             r \in random_range(ExtendMin, ExtendMax) }

\* Variant: the extending branch stops the duration at DurationCap.
add_beholder_clamped(s, mon, axe) ==
    IF sanctuary /\ ~axe
    THEN {suppressed_msg(s, mon)}
    ELSE IF s.duration = 0
    THEN { LET s1 == set_duration(s, r, DurationCap)
               s2 == push_back(s1, mon)
           IN  IF ~axe
               THEN mpr(s2, "engagement_started", mon, "mesmerised_by")
               ELSE s2 :
             r \in random_range(MesmeriseMin, MesmeriseMax) }
    ELSE { LET s1 == increase_duration_capped(s, r, DurationCap)
           IN  IF ~beheld_by(s1, mon) THEN push_back(s1, mon) ELSE s1 :
             r \in random_range(ExtendMin, ExtendMax) }

\* Variant: the first engagement prints its message with axe set as well.
add_beholder_announces(s, mon, axe) ==
    IF sanctuary /\ ~axe
    THEN {suppressed_msg(s, mon)}
    ELSE IF s.duration = 0
    THEN { LET s1 == set_duration(s, r, DurationCap)
               s2 == push_back(s1, mon)
           IN  mpr(s2, "engagement_started", mon, "mesmerised_by") :
             r \in random_range(MesmeriseMin, MesmeriseMax) }
    ELSE { LET s1 == increase_duration(s, r, DurationCap)
           IN  IF ~beheld_by(s1, mon) THEN push_back(s1, mon) ELSE s1 :
             r \in random_range(ExtendMin, ExtendMax) }

add_beholder(s, mon, axe) ==
    IF sanctuary /\ ~axe
    THEN {suppressed_msg(s, mon)}
    ELSE IF s.duration = 0
    THEN { LET s1 == set_duration(s, r, DurationCap)
               s2 == push_back(s1, mon)
           IN  IF ~axe
               THEN mpr(s2, "engagement_started", mon, "mesmerised_by")
               ELSE s2 :
             r \in random_range(MesmeriseMin, MesmeriseMax) }
    ELSE { LET s1 == increase_duration(s, r, DurationCap)
           IN  IF ~beheld_by(s1, mon) THEN push_back(s1, mon) ELSE s1 :
             r \in random_range(ExtendMin, ExtendMax) }

\* --------------------------------------- get_beholder, get_any_beholder
\* grid_distance between two cells of the row.
grid_distance(a, b) == IF a < b THEN b - a ELSE a - b

\* Variant: the beholders are gone through from the last to the first.
RECURSIVE get_beholder_down(_, _, _)
get_beholder_down(s, target, i) ==
    IF i < 1 THEN NullMon
    ELSE LET mon == monster_by_mid(s.beholders[i])
         IN  IF mon = NullMon THEN get_beholder_down(s, target, i - 1)
             ELSE LET olddist == grid_distance(where.you, where.mon[mon])
                      newdist == grid_distance(target, where.mon[mon])
                  IN  IF olddist < newdist THEN mon
                      ELSE get_beholder_down(s, target, i - 1)

get_beholder_last(s, target) == get_beholder_down(s, target, Len(s.beholders))

\* The loop for (mid_t beh : beholders), from index i on.
RECURSIVE get_beholder_from(_, _, _)
get_beholder_from(s, target, i) ==
    IF i > Len(s.beholders) THEN NullMon
    ELSE LET mon == monster_by_mid(s.beholders[i])
         IN  IF mon = NullMon THEN get_beholder_from(s, target, i + 1)
             ELSE LET olddist == grid_distance(where.you, where.mon[mon])
                      newdist == grid_distance(target, where.mon[mon])
                  IN  IF olddist < newdist THEN mon
                      ELSE get_beholder_from(s, target, i + 1)

get_beholder(s, target) == get_beholder_from(s, target, 1)

\* Variant: the first beholder that monster_by_mid() still finds.
RECURSIVE get_any_beholder_live(_, _)
get_any_beholder_live(s, i) ==
    IF i > Len(s.beholders) THEN NullMon
    ELSE IF monster_by_mid(s.beholders[i]) # NullMon
         THEN monster_by_mid(s.beholders[i])
         ELSE get_any_beholder_live(s, i + 1)

get_any_beholder_skips(s) == get_any_beholder_live(s, 1)

get_any_beholder(s) ==
    IF s.beholders # <<>> THEN monster_by_mid(s.beholders[1]) ELSE NullMon

\* ------------------------------------------------------ remove_beholder
\* Variant: _removed_beholder() is called after the loop, found or not.
remove_beholder_always_finalizes(s, mon) ==
    LET i == find_first(s, mon)
    IN  IF i = 0 THEN _removed_beholder(s, FALSE)
        ELSE _removed_beholder(erase(s, i), FALSE)

\* Variant: the entry is erased and _removed_beholder() is not called.
remove_beholder_erase_only(s, mon) ==
    LET i == find_first(s, mon)
    IN  IF i = 0 THEN {s} ELSE {erase(s, i)}

remove_beholder(s, mon) ==
    LET i == find_first(s, mon)
    IN  IF i = 0 THEN {s}
        ELSE _removed_beholder(erase(s, i), FALSE)

\* ------------------------------------------------------ clear_beholders
\* Variant: clear_beholders prints the fully-released message.
clear_beholders_loud(s) ==
    { mpr([s EXCEPT !.beholders = <<>>, !.duration = 0, !.immune = r],
          "fully_released", NullMon, c) :
        r \in random_range(ImmuneMin, ImmuneMax), c \in coinflip }

\* Variant: clear_beholders leaves the immunity as it is.
clear_beholders_keeps_immunity(s) ==
    { [s EXCEPT !.beholders = <<>>, !.duration = 0] }

clear_beholders(s) ==
    { [s EXCEPT !.beholders = <<>>, !.duration = 0, !.immune = r] :
        r \in random_range(ImmuneMin, ImmuneMax) }

\* ----------------------------------------------------- update_beholders
\* Variant of the loop without the quiet _removed_beholder(true) before
\* the message (the state of bug #6547).
RECURSIVE update_loop_unfinalized(_, _)
update_loop_unfinalized(s, i) ==
    IF i < 1 THEN {[s |-> s, removed |-> FALSE]}
    ELSE LET mon == monster_by_mid(s.beholders[i])
         IN  IF ~possible_beholder(mon)
             THEN { [s |-> l.s, removed |-> TRUE] :
                      l \in update_loop_unfinalized(
                               _removed_beholder_msg(erase(s, i), mon), i - 1) }
             ELSE update_loop_unfinalized(s, i - 1)

\* Variant: a beholder that monster_by_mid() does not find is passed over,
\* as get_beholder() does.
RECURSIVE update_loop_skips_gone(_, _)
update_loop_skips_gone(s, i) ==
    IF i < 1 THEN {[s |-> s, removed |-> FALSE]}
    ELSE LET mon == monster_by_mid(s.beholders[i])
         IN  IF mon # NullMon /\ ~possible_beholder(mon)
             THEN UNION { { [s |-> l.s, removed |-> TRUE] :
                              l \in update_loop_skips_gone(
                                        _removed_beholder_msg(s2, mon), i - 1) } :
                          s2 \in _removed_beholder(erase(s, i), TRUE) }
             ELSE update_loop_skips_gone(s, i - 1)

\* Variant: the loop erases every beholder that is no possible beholder
\* and prints the messages afterwards, from the last to the first.
RECURSIVE update_msgs_down(_, _, _)
update_msgs_down(s, old, i) ==
    IF i < 1 THEN s
    ELSE LET mon == monster_by_mid(old.beholders[i])
         IN  IF ~possible_beholder(mon)
             THEN update_msgs_down(_removed_beholder_msg(s, mon), old, i - 1)
             ELSE update_msgs_down(s, old, i - 1)

update_loop_batched(s, i) ==
    LET keep(m) == possible_beholder(monster_by_mid(m))
        s1 == [s EXCEPT !.beholders = SelectSeq(@, keep)]
    IN  IF s1.beholders = s.beholders
        THEN {[s |-> s, removed |-> FALSE]}
        ELSE { [s |-> update_msgs_down(s2, s, i), removed |-> TRUE] :
                 s2 \in _removed_beholder(s1, TRUE) }

\* Variant: the loop runs from the first beholder to the last, staying at
\* the index after an erase.
RECURSIVE update_loop_from(_, _)
update_loop_from(s, j) ==
    IF j > Len(s.beholders) THEN {[s |-> s, removed |-> FALSE]}
    ELSE LET mon == monster_by_mid(s.beholders[j])
         IN  IF ~possible_beholder(mon)
             THEN UNION { { [s |-> l.s, removed |-> TRUE] :
                              l \in update_loop_from(
                                        _removed_beholder_msg(s2, mon), j) } :
                          s2 \in _removed_beholder(erase(s, j), TRUE) }
             ELSE update_loop_from(s, j + 1)

update_loop_up(s, i) == update_loop_from(s, 1)

\* Variant: the loop runs from the first beholder to the last and steps on
\* after an erase, passing over the beholder that moved into the index.
RECURSIVE update_loop_stepping(_, _)
update_loop_stepping(s, j) ==
    IF j > Len(s.beholders) THEN {[s |-> s, removed |-> FALSE]}
    ELSE LET mon == monster_by_mid(s.beholders[j])
         IN  IF ~possible_beholder(mon)
             THEN UNION { { [s |-> l.s, removed |-> TRUE] :
                              l \in update_loop_stepping(
                                        _removed_beholder_msg(s2, mon), j + 1) } :
                          s2 \in _removed_beholder(erase(s, j), TRUE) }
             ELSE update_loop_stepping(s, j + 1)

update_loop_skips_next(s, i) == update_loop_stepping(s, 1)

\* Variant: the loop ends at the first beholder it removes.
RECURSIVE update_loop_breaks(_, _)
update_loop_breaks(s, i) ==
    IF i < 1 THEN {[s |-> s, removed |-> FALSE]}
    ELSE LET mon == monster_by_mid(s.beholders[i])
         IN  IF ~possible_beholder(mon)
             THEN { [s |-> _removed_beholder_msg(s2, mon), removed |-> TRUE] :
                      s2 \in _removed_beholder(erase(s, i), TRUE) }
             ELSE update_loop_breaks(s, i - 1)

\* The loop for (i = size - 1; i >= 0; i--), from index i down: the
\* states it can end in, each with the value of removed.
RECURSIVE update_loop(_, _)
update_loop(s, i) ==
    IF i < 1 THEN {[s |-> s, removed |-> FALSE]}
    ELSE LET mon == monster_by_mid(s.beholders[i])
         IN  IF ~possible_beholder(mon)
             THEN UNION { { [s |-> l.s, removed |-> TRUE] :
                              l \in update_loop(s3, i - 1) } :
                          s3 \in { _removed_beholder_msg(s2, mon) :
                                     s2 \in _removed_beholder(erase(s, i), TRUE) } }
             ELSE update_loop(s, i - 1)

\* Variant: the closing if (removed) _removed_beholder() is missing.
update_beholders_no_final(s) ==
    IF ~beheld(s) THEN {s}
    ELSE { l.s : l \in update_loop(s, Len(s.beholders)) }

update_beholders(s) ==
    IF ~beheld(s) THEN {s}
    ELSE UNION { IF l.removed THEN _removed_beholder(l.s, FALSE) ELSE {l.s} :
                   l \in update_loop(s, Len(s.beholders)) }

\* ------------------------------------------------------ update_beholder
\* Variant without the quiet _removed_beholder(true) before the message
\* (the state of bug #8844).
update_beholder_unfinalized(s, mon, key) ==
    IF possible_beholder(mon) THEN {s}
    ELSE LET i == find_first(s, key)
         IN  IF i = 0 THEN {s}
             ELSE _removed_beholder(_removed_beholder_msg(erase(s, i), mon), FALSE)

\* Variant: the first _removed_beholder() is not quiet either.
update_beholder_loud(s, mon, key) ==
    IF possible_beholder(mon) THEN {s}
    ELSE LET i == find_first(s, key)
         IN  IF i = 0 THEN {s}
             ELSE UNION { _removed_beholder(_removed_beholder_msg(s2, mon), FALSE) :
                          s2 \in _removed_beholder(erase(s, i), FALSE) }

\* Variant: possible_beholder(mon) is not asked first.
update_beholder_untested(s, mon, key) ==
    LET i == find_first(s, key)
    IN  IF i = 0 THEN {s}
        ELSE UNION { _removed_beholder(_removed_beholder_msg(s2, mon), FALSE) :
                     s2 \in _removed_beholder(erase(s, i), TRUE) }

\* key is the value read as mon->mid.
update_beholder(s, mon, key) ==
    IF possible_beholder(mon) THEN {s}
    ELSE LET i == find_first(s, key)
         IN  IF i = 0 THEN {s}
             ELSE UNION { _removed_beholder(_removed_beholder_msg(s2, mon), FALSE) :
                          s2 \in _removed_beholder(erase(s, i), TRUE) }

\* -------------------------------------------------------------- actions
\* A call: the method, its arguments, whether the list of beholders was
\* non-empty when it was made, and for remove_beholder and
\* _removed_beholder whether it repeats the call made just before it.
Op(name, mid, axe) ==
    [op |-> name, mid |-> mid, axe |-> axe, target |-> 0, quiet |-> FALSE,
     held |-> (beholders # <<>>),
     again |-> (name \in {"remove_beholder", "_removed_beholder"}
                /\ lastOp.op = name /\ lastOp.mid = mid)]

Returns(s, op) ==
    /\ beholders' = s.beholders
    /\ duration' = s.duration
    /\ immune' = s.immune
    /\ msgs' = s.msgs
    /\ lastOp' = op
    /\ UNCHANGED <<world, result, fault>>

Crashes(op) ==
    /\ fault' = TRUE
    /\ msgs' = <<>>
    /\ lastOp' = op
    /\ UNCHANGED <<beholders, duration, immune, world, result>>

AddBeholder ==
    \E mon \in Monsters, axe \in BOOLEAN :
        \E s \in add_beholder(You, mon, axe) :
            /\ ~fault
            /\ s.duration <= MaxDuration
            /\ Returns(s, Op("add_beholder", mon, axe))

RemoveBeholder ==
    \E mon \in Monsters :
        \E s \in remove_beholder(You, mon) :
            /\ ~fault
            /\ Returns(s, Op("remove_beholder", mon, FALSE))

ClearBeholders ==
    \E s \in clear_beholders(You) :
        /\ ~fault
        /\ Returns(s, Op("clear_beholders", NullMon, FALSE))

\* update_beholders starts with beheld(), whose ASSERT aborts the program.
UpdateBeholders ==
    /\ ~fault
    /\ IF AssertBeheld(You)
       THEN \E s \in update_beholders(You) :
                Returns(s, Op("update_beholders", NullMon, FALSE))
       ELSE Crashes(Op("update_beholders", NullMon, FALSE))

UpdateBeholder ==
    \E mon \in Monsters :
        \E s \in update_beholder(You, mon, mon) :
            /\ ~fault
            /\ Returns(s, Op("update_beholder", mon, FALSE))

\* update_beholder(nullptr): possible_beholder(nullptr) is false; with an
\* empty list the loop body never runs; otherwise the loop reads mon->mid
\* through the null pointer: the program crashes, or goes on with the
\* value the read produced, which equals the mid of some beholder or of
\* none.
UpdateBeholderNull ==
    /\ ~fault
    /\ \/ /\ beholders = <<>>
          /\ \E s \in update_beholder(You, NullMon, NullMon) :
                Returns(s, Op("update_beholder", NullMon, FALSE))
       \/ /\ beholders # <<>>
          /\ Crashes(Op("update_beholder", NullMon, FALSE))
       \/ /\ beholders # <<>>
          /\ \E key \in {beholders[i] : i \in DOMAIN beholders} \cup {NullMon} :
                \E s \in update_beholder(You, NullMon, key) :
                    Returns(s, Op("update_beholder", NullMon, FALSE))

\* The world between two calls: a monster changes, dies or leaves, the
\* player steps into or out of a sanctuary.  silenced(you.pos()), the demon
\* axe, arena mode and the positions stay as Init sets them.
World ==
    [op |-> "world", mid |-> NullMon, axe |-> FALSE, target |-> 0,
     quiet |-> FALSE, held |-> FALSE, again |-> FALSE]

MonsterChanges ==
    \E m \in Mids, st \in MonsterStates :
        /\ ~fault
        /\ st # mons[m]
        /\ mons' = [mons EXCEPT ![m] = st]
        /\ msgs' = <<>> /\ lastOp' = World
        /\ UNCHANGED <<beholders, duration, immune, sanctuary, silencedYou,
                       demonAxe, arena, where, result, fault>>

SanctuaryChanges ==
    /\ ~fault
    /\ sanctuary' = ~sanctuary
    /\ msgs' = <<>> /\ lastOp' = World
    /\ UNCHANGED <<beholders, duration, immune, mons, silencedYou,
                   demonAxe, arena, where, result, fault>>

Init ==
    /\ beholders = <<>>
    /\ duration = 0
    /\ immune = 0
    /\ mons = [m \in Mids |-> Siren]
    /\ sanctuary = FALSE
    /\ silencedYou = FALSE
    /\ demonAxe = FALSE
    /\ arena = FALSE
    /\ where = [you |-> 0, mon |-> [m \in Mids |-> 0]]
    /\ msgs = <<>>
    /\ lastOp = World
    /\ result = NullMon
    /\ fault = FALSE

Next ==
    \/ AddBeholder
    \/ RemoveBeholder
    \/ ClearBeholders
    \/ UpdateBeholders
    \/ UpdateBeholder
    \/ UpdateBeholderNull
    \/ MonsterChanges
    \/ SanctuaryChanges

Spec == Init /\ [][Next]_vars

\* -------------------------------------------- one call, any monster
\* The lists of beholders the program can hold: no mid twice.
BeholderLists ==
    UNION { {b \in [1..n -> Mids] : \A i, j \in 1..n : b[i] = b[j] => i = j} :
              n \in 0..NumMonsters }

\* Monster 1 in every combination of the facts _removed_beholder_msg
\* returns early on, eligible (not confused) or not.
MsgMonsterStates ==
    { Gone } \cup
    { [Siren EXCEPT !.alive = a, !.siren = sr, !.has_spell = ~sr,
                    !.submerged = u, !.see_cell = c, !.confused = k] :
        a \in BOOLEAN, sr \in BOOLEAN, u \in BOOLEAN, c \in BOOLEAN,
        k \in BOOLEAN }

\* A state between two calls: any list of beholders with a positive
\* duration exactly when it is non-empty, monster 1 in any of
\* MsgMonsterStates, the others in any of MonsterStates.
InitMsg ==
    /\ beholders \in BeholderLists
    /\ duration = IF beholders = <<>> THEN 0 ELSE MesmeriseMin
    /\ immune = 0
    /\ mons \in { f \in [Mids -> MsgMonsterStates \cup MonsterStates] :
                    \A m \in Mids : m # 1 => f[m] \in MonsterStates }
    /\ sanctuary \in BOOLEAN
    /\ silencedYou = FALSE
    /\ demonAxe = FALSE
    /\ arena = FALSE
    /\ where = [you |-> 0, mon |-> [m \in Mids |-> 0]]
    /\ msgs = <<>>
    /\ lastOp = World
    /\ result = NullMon
    /\ fault = FALSE

NextMsg ==
    \/ UpdateBeholders
    \/ UpdateBeholder

SpecMsg == InitMsg /\ [][NextMsg]_vars

\* ------------------------------------------- possible_beholder, called
\* Variant: the method prints a message before it returns.
Answers_prints(value, op) ==
    /\ ~fault
    /\ result' = value
    /\ msgs' = mpr(You, "source_released", op.mid, "something_stops").msgs
    /\ lastOp' = op
    /\ UNCHANGED <<beholders, duration, immune, world, fault>>

\* The const methods are called on their own: the value returned is kept
\* in result and nothing else changes.
Answers(value, op) ==
    /\ ~fault
    /\ result' = value
    /\ msgs' = <<>>
    /\ lastOp' = op
    /\ UNCHANGED <<beholders, duration, immune, world, fault>>

PossibleBeholder ==
    \E mon \in Monsters \cup {NullMon} :
        Answers(possible_beholder(mon), Op("possible_beholder", mon, FALSE))

\* The monsters possible_beholder() is given: the siren with up to MaxFlips
\* of the facts read about it turned over, and the monster that is gone.
Flipped(S) == [f \in DOMAIN Siren |-> IF f \in S THEN ~Siren[f] ELSE Siren[f]]

EligMonsterStates ==
    { Flipped(S) : S \in { T \in SUBSET (DOMAIN Siren \ {"exists"}) :
                             Cardinality(T) <= MaxFlips } }
    \cup {Gone}

\* Monster 1 is any of these, the others are sirens; the sanctuary, the
\* silence at the player's position, the demon axe and arena mode are each
\* on or off.
InitElig ==
    /\ beholders = <<>>
    /\ duration = 0
    /\ immune = 0
    /\ \E st \in EligMonsterStates :
           mons = [m \in Mids |-> IF m = 1 THEN st ELSE Siren]
    /\ sanctuary \in BOOLEAN
    /\ silencedYou \in BOOLEAN
    /\ demonAxe \in BOOLEAN
    /\ arena \in BOOLEAN
    /\ where = [you |-> 0, mon |-> [m \in Mids |-> 0]]
    /\ msgs = <<>>
    /\ lastOp = World
    /\ result = NullMon
    /\ fault = FALSE

NextElig == PossibleBeholder

SpecElig == InitElig /\ [][NextElig]_vars

\* ------------------------------ get_beholder, get_any_beholder, called
GetBeholder ==
    \E target \in Cells :
        Answers(get_beholder(You, target),
                [Op("get_beholder", NullMon, FALSE) EXCEPT !.target = target])

GetAnyBeholder ==
    Answers(get_any_beholder(You), Op("get_any_beholder", NullMon, FALSE))

\* ------------------------------------------ beheld, beheld_by, called
Beheld ==
    IF AssertBeheld(You)
    THEN Answers(beheld(You), Op("beheld", NullMon, FALSE))
    ELSE ~fault /\ Crashes(Op("beheld", NullMon, FALSE))

BeheldBy ==
    \E mon \in Monsters :
        Answers(beheld_by(You, mon), Op("beheld_by", mon, FALSE))

\* ------------------------------------------- beholders that are gone
\* A state between two calls in any world: any list of beholders, each
\* monster gone, a siren or a confused siren, and the sanctuary, the
\* silence at the player's position, the demon axe and arena mode each on
\* or off.
GoneMonsterStates == {Gone, Siren, [Siren EXCEPT !.confused = TRUE]}

InitGone ==
    /\ beholders \in BeholderLists
    /\ duration = IF beholders = <<>> THEN 0 ELSE MesmeriseMin
    /\ immune = 0
    /\ mons \in [Mids -> GoneMonsterStates]
    /\ sanctuary \in BOOLEAN
    /\ silencedYou \in BOOLEAN
    /\ demonAxe \in BOOLEAN
    /\ arena \in BOOLEAN
    /\ where = [you |-> 0, mon |-> [m \in Mids |-> 0]]
    /\ msgs = <<>>
    /\ lastOp = World
    /\ result = NullMon
    /\ fault = FALSE

NextGone ==
    \/ UpdateBeholders
    \/ UpdateBeholder
    \/ UpdateBeholderNull
    \/ PossibleBeholder
    \/ GetBeholder
    \/ GetAnyBeholder
    \/ Beheld
    \/ BeheldBy

SpecGone == InitGone /\ [][NextGone]_vars

\* ------------------------------------------------ the positions
\* A state between two calls: any list of beholders, each monster there
\* (alive or not) or gone, the player and each monster in any cell of the
\* row.
GateMonsterStates == {Gone, Siren, [Siren EXCEPT !.alive = FALSE]}

InitGate ==
    /\ beholders \in BeholderLists
    /\ duration = IF beholders = <<>> THEN 0 ELSE MesmeriseMin
    /\ immune = 0
    /\ mons \in [Mids -> GateMonsterStates]
    /\ sanctuary = FALSE
    /\ silencedYou = FALSE
    /\ demonAxe = FALSE
    /\ arena = FALSE
    /\ where \in [you : Cells, mon : [Mids -> Cells]]
    /\ msgs = <<>>
    /\ lastOp = World
    /\ result = NullMon
    /\ fault = FALSE

NextGate ==
    \/ GetBeholder
    \/ GetAnyBeholder

SpecGate == InitGate /\ [][NextGate]_vars

\* ------------------------------------------- _removed_beholder, called
\* The helper on its own, as the methods call it after an erase and call
\* it again before they return.
RemovedBeholder ==
    \E quiet \in BOOLEAN :
        \E s \in _removed_beholder(You, quiet) :
            /\ ~fault
            /\ Returns(s, [Op("_removed_beholder", NullMon, FALSE)
                              EXCEPT !.quiet = quiet])

\* The state right after an erase: any list of beholders, empty if the
\* last one was erased, the duration still positive, and the immunity 0
\* or left from an earlier release.
InitExpire ==
    /\ beholders \in BeholderLists
    /\ duration \in 1..MaxDuration
    /\ immune \in {0, ImmuneMin, ImmuneMax}
    /\ mons = [m \in Mids |-> Siren]
    /\ sanctuary = FALSE
    /\ silencedYou = FALSE
    /\ demonAxe = FALSE
    /\ arena = FALSE
    /\ where = [you |-> 0, mon |-> [m \in Mids |-> 0]]
    /\ msgs = <<>>
    /\ lastOp = World
    /\ result = NullMon
    /\ fault = FALSE

NextExpire == RemovedBeholder

SpecExpire == InitExpire /\ [][NextExpire]_vars

\* ------------------------------------------- update_beholders, each turn
\* A siren becomes confused, or its confusion ends, between two calls.
Confuses ==
    \E m \in Mids :
        /\ ~fault
        /\ mons' = [mons EXCEPT ![m].confused = ~@]
        /\ msgs' = <<>> /\ lastOp' = World
        /\ UNCHANGED <<beholders, duration, immune, sanctuary, silencedYou,
                       demonAxe, arena, where, result, fault>>

\* The turns of a game: sirens sing (add_beholder), are confused and
\* recover, and update_beholders() is called turn after turn.
InitTick ==
    /\ beholders = <<>>
    /\ duration = 0
    /\ immune = 0
    /\ mons = [m \in Mids |-> Siren]
    /\ sanctuary \in BOOLEAN
    /\ silencedYou = FALSE
    /\ demonAxe = FALSE
    /\ arena = FALSE
    /\ where = [you |-> 0, mon |-> [m \in Mids |-> 0]]
    /\ msgs = <<>>
    /\ lastOp = World
    /\ result = NullMon
    /\ fault = FALSE

NextTick ==
    \/ AddBeholder
    \/ UpdateBeholders
    \/ Confuses

SpecTick == InitTick /\ [][NextTick]_vars /\ WF_vars(UpdateBeholders)

\* --------------------------------------------- three or more beholders
\* A registry with one monster more than the methods are called with, so
\* that a beholder can be removed from a list that keeps two or more.
Crowd == 1..(NumMonsters + 1)

CrowdLists ==
    UNION { {b \in [1..n -> Crowd] : \A i, j \in 1..n : b[i] = b[j] => i = j} :
              n \in 0..(NumMonsters + 1) }

\* A state between two calls: any list of beholders out of the crowd,
\* each monster a siren or a confused siren, the immunity 0 or left from
\* an earlier release.
InitCrowd ==
    /\ beholders \in CrowdLists
    /\ duration = IF beholders = <<>> THEN 0 ELSE MesmeriseMin
    /\ immune \in {0, ImmuneMin}
    /\ mons \in [Crowd -> {Siren, [Siren EXCEPT !.confused = TRUE]}]
    /\ sanctuary = FALSE
    /\ silencedYou = FALSE
    /\ demonAxe = FALSE
    /\ arena = FALSE
    /\ where = [you |-> 0, mon |-> [m \in Mids |-> 0]]
    /\ msgs = <<>>
    /\ lastOp = World
    /\ result = NullMon
    /\ fault = FALSE

NextCrowd ==
    \/ RemoveBeholder
    \/ UpdateBeholders
    \/ UpdateBeholder
    \/ UpdateBeholderNull

SpecCrowd == InitCrowd /\ [][NextCrowd]_vars

\* ---------------------------------------------------------- properties
Kinds(k) == {i \in DOMAIN msgs : msgs[i].kind = k}

Released(m) == {i \in Kinds("source_released") : msgs[i].mid = m}

\* C1: invariant I1: whenever a method has returned, duration[DUR_MESMERISED]
\* is positive exactly when beholders is non-empty, so the ASSERT of beheld()
\* holds between calls and no call is aborted by it.
C1_InvariantI1 ==
    /\ (duration > 0) <=> (beholders # <<>>)
    /\ AssertBeheld(You)
    /\ fault => (lastOp.op = "update_beholder" /\ lastOp.mid = NullMon)

\* A call has removed one of two beholders after an earlier full release.
C1_Witness ==
    /\ lastOp.op = "update_beholder" /\ lastOp.mid # NullMon
    /\ Len(beholders) = 1 /\ duration > 0 /\ immune > 0
    /\ msgs # <<>>

\* C2: two-phase finalize: at every message a method prints, a handler that
\* re-enters beheld() sees a positive duration exactly when beholders is
\* non-empty.
C2_TwoPhaseFinalize ==
    \A i \in DOMAIN msgs :
        (msgs[i].duration > 0) <=> (msgs[i].beholders # <<>>)

\* update_beholders has printed the message of the last beholder it removed:
\* at that message the list was empty and the duration already 0.
C2_Witness ==
    /\ lastOp.op = "update_beholders"
    /\ \E i \in Kinds("source_released") :
          msgs[i].beholders = <<>> /\ msgs[i].duration = 0

\* C3: an update_beholders pass that leaves beholders empty after removing
\* beholders ends with duration 0 and prints the fully-released message
\* exactly once, after every per-monster message of the pass.
C3_FullReleaseOnceLast ==
    ( /\ lastOp.op = "update_beholders" /\ ~fault
      /\ lastOp.held /\ beholders = <<>> )
    => ( /\ duration = 0
         /\ Cardinality(Kinds("fully_released")) = 1
         /\ \A i \in Kinds("source_released"), j \in Kinds("fully_released") :
               i < j )

\* A pass removed two beholders, printed both their messages and then the
\* fully-released message.
C3_Witness ==
    /\ lastOp.op = "update_beholders" /\ lastOp.held
    /\ beholders = <<>> /\ duration = 0
    /\ Len(msgs) = 3
    /\ msgs[1].kind = "source_released" /\ msgs[2].kind = "source_released"
    /\ msgs[3].kind = "fully_released"

\* A call of update_beholders, or of update_beholder on a monster.
Reconciles(op) ==
    \/ op.op = "update_beholders"
    \/ op.op = "update_beholder" /\ op.mid # NullMon

Holds(m) == beheld_by(You, m)

\* The conditions under which _removed_beholder_msg prints for monster m.
Notifiable(m) ==
    /\ mons[m].exists /\ mons[m].alive /\ mons[m].siren
    /\ ~mons[m].submerged /\ mons[m].see_cell

\* C4 as stated: every beholder that update_beholders or update_beholder
\* removes as ineligible gets exactly one per-monster message, dead or not.
C4_Original ==
    [][ (Reconciles(lastOp') /\ ~fault')
        => \A m \in Mids :
             (Holds(m) /\ ~Holds(m)') => Cardinality(Released(m)') = 1 ]_vars

\* C4 amended: every beholder that update_beholders or update_beholder
\* removes as ineligible gets at most one per-monster message: exactly one
\* when it still resolves, is alive, is a siren, is not submerged and is in
\* a cell the player sees, and none otherwise (none when it died); a
\* monster that was not removed gets none.
C4_ReleasedMessagePerRemoval ==
    [][ (Reconciles(lastOp') /\ ~fault')
        => \A m \in Mids :
             Cardinality(Released(m)') =
                 IF Holds(m) /\ ~Holds(m)' /\ Notifiable(m) THEN 1 ELSE 0 ]_vars

\* A pass removed two beholders: monster 1, dead, without a per-monster
\* message, and a confused siren with its message; the fully-released
\* message follows.
C4_Witness ==
    /\ lastOp.op = "update_beholders" /\ lastOp.held
    /\ beholders = <<>>
    /\ mons[1] = [Siren EXCEPT !.alive = FALSE]
    /\ Len(msgs) = 2
    /\ msgs[1].kind = "source_released" /\ msgs[1].mid # 1
    /\ msgs[2].kind = "fully_released"

\* C5: no call that returns with beholders non-empty has printed the
\* fully-released message.
C5_NoFullReleaseWhileHeld ==
    beholders # <<>> => Kinds("fully_released") = {}

\* A pass removed an ineligible beholder, printed its message, and another
\* beholder stays.
C5_Witness ==
    /\ lastOp.op = "update_beholders"
    /\ beholders # <<>>
    /\ Kinds("source_released") # {}

\* C6: update_beholder on an ineligible beholder erases it and applies the
\* quiet expire check before it prints anything: every message of the call
\* sees the final list, without the monster, and the final duration (0 when
\* the list is empty); the fully-released message comes after the
\* per-monster message and only when the list is empty.
C6_UpdateBeholderOrder ==
    (lastOp.op = "update_beholder" /\ lastOp.mid # NullMon /\ ~fault)
    => /\ \A i \in DOMAIN msgs :
            /\ msgs[i].beholders = beholders
            /\ msgs[i].duration = duration
            /\ ~beheld_by(msgs[i], lastOp.mid)
            /\ msgs[i].beholders = <<>> => msgs[i].duration = 0
       /\ \A i \in Kinds("source_released"), j \in Kinds("fully_released") :
            i < j
       /\ Kinds("fully_released") # {} => beholders = <<>>
       /\ DOMAIN msgs = Kinds("source_released") \cup Kinds("fully_released")
       /\ Cardinality(Kinds("source_released")) <= 1
       /\ Cardinality(Kinds("fully_released")) <= 1

\* update_beholder removed the last beholder: its message, then the
\* fully-released message.
C6_Witness ==
    /\ lastOp.op = "update_beholder" /\ lastOp.mid # NullMon
    /\ Len(msgs) = 2
    /\ msgs[1].kind = "source_released" /\ msgs[1].mid = lastOp.mid
    /\ msgs[2].kind = "fully_released"

NoDuplicates ==
    \A i, j \in DOMAIN beholders : beholders[i] = beholders[j] => i = j

\* C7: beholders never holds a mid twice, and add_beholder for a monster
\* that is already a beholder does not change the length of the list.
C7_NoDuplicateHolders ==
    /\ []NoDuplicates
    /\ [][ (lastOp'.op = "add_beholder" /\ Holds(lastOp'.mid))
           => Len(beholders') = Len(beholders) ]_vars

\* add_beholder extended the duration for the monster that is the only
\* beholder (not blocked, nothing started, so it was a beholder before).
C7_Witness ==
    /\ lastOp.op = "add_beholder" /\ lastOp.held
    /\ beholders = <<lastOp.mid>>
    /\ Kinds("engagement_suppressed") = {}

\* C8: remove_beholder(x) straight after remove_beholder(x) removes nothing,
\* changes neither beholders nor the two durations and prints nothing.
C8_IdempotentRelease ==
    [][ (lastOp'.op = "remove_beholder" /\ lastOp'.again /\ ~fault')
        => /\ beholders' = beholders
           /\ duration' = duration
           /\ immune' = immune
           /\ msgs' = <<>> ]_vars

\* The second of two remove_beholder(x) calls has returned, after a full
\* release.
C8_Witness ==
    /\ lastOp.op = "remove_beholder" /\ lastOp.again
    /\ beholders = <<>> /\ immune > 0

\* C9 as stated: remove_beholder never changes the duration or the immunity
\* window and never prints the fully-released message.
C9_Original ==
    [][ lastOp'.op = "remove_beholder"
        => /\ duration' = duration
           /\ immune' = immune
           /\ Kinds("fully_released")' = {} ]_vars

\* C9 amended: remove_beholder removes the monster from beholders and then
\* applies the expire check itself: when the list stays non-empty (or the
\* monster was no beholder) the duration and the immunity window are
\* unchanged and nothing is printed; when the monster was the last beholder
\* the duration becomes 0, the immunity window is redrawn in [21, 40] and
\* the fully-released message is printed once.
C9_ReleaseExpires ==
    [][ lastOp'.op = "remove_beholder"
        => /\ beholders' = SelectSeq(beholders, LAMBDA x : x # lastOp'.mid)
           /\ IF Holds(lastOp'.mid) /\ beholders' = <<>>
              THEN /\ duration' = 0
                   /\ immune' \in ImmuneMin..ImmuneMax
                   /\ Len(msgs') = 1 /\ msgs'[1].kind = "fully_released"
              ELSE /\ duration' = duration
                   /\ immune' = immune
                   /\ msgs' = <<>> ]_vars

\* remove_beholder removed the last beholder and printed the fully-released
\* message.
C9_Witness ==
    /\ lastOp.op = "remove_beholder" /\ lastOp.held
    /\ beholders = <<>> /\ duration = 0
    /\ immune \in ImmuneMin..ImmuneMax
    /\ Len(msgs) = 1 /\ msgs[1].kind = "fully_released"

\* C10: clear_beholders leaves beholders empty and the duration 0 and prints
\* nothing.
C10_ClearAllSilent ==
    lastOp.op = "clear_beholders"
    => beholders = <<>> /\ duration = 0 /\ msgs = <<>>

\* clear_beholders was called while the player was mesmerised.
C10_Witness ==
    /\ lastOp.op = "clear_beholders" /\ lastOp.held
    /\ beholders = <<>> /\ immune \in ImmuneMin..ImmuneMax

\* ----------------------------------------------------------------------
\* C11. add_beholder(mon, axe) called in a sanctuary with axe false is
\* blocked: the beholders, the duration and the immunity are as they were
\* before the call, and the call printed exactly one message, the one that
\* says the engagement of mon was suppressed.
Blocked(op) == op.op = "add_beholder" /\ sanctuary /\ ~op.axe

C11_BlockedEngagement ==
    [][ Blocked(lastOp')
        => /\ beholders' = beholders
           /\ duration' = duration
           /\ immune' = immune
           /\ Len(msgs') = 1
           /\ msgs'[1].kind = "engagement_suppressed"
           /\ msgs'[1].mid = lastOp'.mid ]_vars

\* A blocked call made while another monster holds the player.
C11_Witness ==
    /\ Blocked(lastOp)
    /\ beholders # <<>>
    /\ ~Holds(lastOp.mid)
    /\ Kinds("engagement_suppressed") = {1}

\* ----------------------------------------------------------------------
\* C12. add_beholder(mon, axe) that is not blocked and finds no beholder
\* starts the mesmerisation: afterwards mon is the only beholder and the
\* duration lies in MesmeriseMin..MesmeriseMax; the one message it prints,
\* and only when axe is false, says that mon mesmerised the player.
C12_StartedEngagement ==
    (lastOp.op = "add_beholder" /\ ~Blocked(lastOp) /\ ~lastOp.held)
    => /\ beholders = <<lastOp.mid>>
       /\ duration \in MesmeriseMin..MesmeriseMax
       /\ Kinds("engagement_suppressed") = {}
       /\ Kinds("engagement_started") = (IF lastOp.axe THEN {} ELSE {1})
       /\ Len(msgs) = (IF lastOp.axe THEN 0 ELSE 1)

\* A first engagement that drew the longest duration.
C12_Witness ==
    /\ lastOp.op = "add_beholder"
    /\ ~lastOp.held
    /\ ~lastOp.axe
    /\ beholders = <<lastOp.mid>>
    /\ duration = MesmeriseMax
    /\ Kinds("engagement_started") = {1}

\* ----------------------------------------------------------------------
\* C13. add_beholder(mon, axe) that is not blocked and finds a beholder
\* extends the mesmerisation: the duration grows by an amount in
\* ExtendMin..ExtendMax, mon is appended at the end unless it is a
\* beholder already, in which case the list is as it was, and nothing is
\* printed.
Extends(op) == op.op = "add_beholder" /\ ~Blocked(op) /\ beholders # <<>>

C13_ExtendedEngagement ==
    [][ Extends(lastOp')
        => /\ (duration' - duration) \in ExtendMin..ExtendMax
           /\ beholders' = IF Holds(lastOp'.mid) THEN beholders
                           ELSE Append(beholders, lastOp'.mid)
           /\ msgs' = <<>> ]_vars

\* An extension that appended a second beholder behind the first.
C13_Witness ==
    /\ lastOp.op = "add_beholder"
    /\ lastOp.held
    /\ Len(beholders) = 2
    /\ beholders[2] = lastOp.mid
    /\ duration = MesmeriseMin + ExtendMax
    /\ msgs = <<>>

C15_AxeBypassesSanctuary ==
    [][ (lastOp'.op = "add_beholder" /\ lastOp'.axe /\ sanctuary)
        => /\ beholders' = IF Holds(lastOp'.mid) THEN beholders
                           ELSE Append(beholders, lastOp'.mid)
           /\ beheld_by([beholders |-> beholders'], lastOp'.mid)
           /\ IF beholders = <<>>
              THEN duration' \in MesmeriseMin..MesmeriseMax
              ELSE (duration' - duration) \in ExtendMin..ExtendMax
           /\ \A i \in DOMAIN msgs' :
                  msgs'[i].kind # "engagement_suppressed" ]_vars

\* An axe engagement in a sanctuary that started the mesmerisation.
C15_Witness ==
    /\ lastOp.op = "add_beholder"
    /\ lastOp.axe
    /\ sanctuary
    /\ ~lastOp.held
    /\ beholders = <<lastOp.mid>>
    /\ duration > 0

\* ----------------------------------------------------------------------
\* C16 as stated: with the demon axe possible_beholder() is true of a
\* monster whatever else holds (arena mode left aside).
Asked == lastOp.mid

C16_Original ==
    (lastOp.op = "possible_beholder" /\ demonAxe /\ ~arena
        /\ Asked # NullMon)
    => result = TRUE

\* C16. With the demon axe, possible_beholder(mon) no longer depends on
\* whether mon is a siren or has the spell, on silence, on mon being
\* confused, asleep, unable to move, berserk or fleeing, or on the
\* sanctuary; it is true exactly when the game is not in arena mode, mon
\* is a monster that is alive and not submerged, the player's cell and
\* mon's cell see each other and mon sees the player's cell, and mon is
\* neither unwilling to attack nor pacified.
Present(m) ==
    /\ m # NullMon
    /\ mons[m].exists /\ mons[m].alive

Perceives(m) == mons[m].los /\ mons[m].sees_you

Hostile(m) == ~mons[m].wont_attack /\ ~mons[m].pacified

C16_AxeReplacesInnerGroup ==
    (lastOp.op = "possible_beholder" /\ demonAxe)
    => (result = TRUE <=> /\ ~arena
                          /\ Present(Asked)
                          /\ ~mons[Asked].submerged
                          /\ Perceives(Asked)
                          /\ Hostile(Asked))

\* The axe made a confused monster that is no siren a possible beholder,
\* in a sanctuary.
C16_Witness ==
    /\ lastOp.op = "possible_beholder"
    /\ demonAxe
    /\ sanctuary
    /\ Asked # NullMon
    /\ ~mons[Asked].siren /\ ~mons[Asked].has_spell
    /\ mons[Asked].confused
    /\ result = TRUE

\* ----------------------------------------------------------------------
\* C17 as stated: without the demon axe possible_beholder() is true
\* exactly when the seven conditions hold (arena mode left aside).
Capable(m) == mons[m].siren \/ mons[m].has_spell

Audible(m) == ~silencedYou /\ ~mons[m].is_silenced

Fit(m) ==
    /\ ~mons[m].confused /\ ~mons[m].asleep /\ ~mons[m].cannot_move
    /\ ~mons[m].berserk /\ ~mons[m].fleeing

Seven(m) ==
    /\ Present(m)
    /\ Perceives(m)
    /\ Hostile(m)
    /\ Capable(m)
    /\ Audible(m)
    /\ Fit(m)
    /\ ~sanctuary

C17_Original ==
    (lastOp.op = "possible_beholder" /\ ~demonAxe /\ ~arena)
    => (result = TRUE <=> Seven(Asked))

\* C17. Without the demon axe, possible_beholder(mon) is true exactly when
\* the seven conditions hold, mon is not submerged and the game is not in
\* arena mode; what else is known of mon (whether the player sees it or
\* its cell, whether its cell is silenced) does not change the result.
C17_SevenAndSubmergedAndArena ==
    (lastOp.op = "possible_beholder" /\ ~demonAxe)
    => (result = TRUE <=> /\ Seven(Asked)
                          /\ ~mons[Asked].submerged
                          /\ ~arena)

\* A monster with the spell that is no siren, whose cell is silenced and
\* which the player does not see, is a possible beholder.
C17_Witness ==
    /\ lastOp.op = "possible_beholder"
    /\ ~demonAxe
    /\ Asked # NullMon
    /\ ~mons[Asked].siren /\ mons[Asked].has_spell
    /\ ~mons[Asked].can_see
    /\ result = TRUE

\* ----------------------------------------------------------------------
\* C18. A beholder whose mid monster_by_mid() no longer finds is no
\* possible beholder in any world, with the demon axe or without it; the
\* next update_beholders() takes it off the list, prints no message that
\* it released the player, and does not crash.
GoneHolders == {m \in Mids : Holds(m) /\ monster_by_mid(m) = NullMon}

C18_GoneHolderRemovedSilently ==
    /\ [](lastOp.op = "possible_beholder" /\ Asked = NullMon
          => result = FALSE)
    /\ [][ lastOp'.op = "update_beholders"
           => /\ ~fault'
              /\ \A m \in GoneHolders :
                    /\ ~beheld_by([beholders |-> beholders'], m)
                    /\ \A i \in DOMAIN msgs' :
                          ~(msgs'[i].kind = "source_released"
                            /\ msgs'[i].mid = m) ]_vars

\* With the demon axe, update_beholders() took the last beholders, all
\* gone, off the list.
C18_Witness ==
    /\ lastOp.op = "update_beholders"
    /\ lastOp.held
    /\ demonAxe
    /\ \A m \in Mids : ~mons[m].exists
    /\ beholders = <<>>
    /\ duration = 0
    /\ Kinds("source_released") = {}
    /\ ~fault

\* ----------------------------------------------------------------------
\* C19 as stated: update_beholders(), update_beholder(), get_beholder()
\* and get_any_beholder() do not crash, whether the monster passed in or a
\* beholder on the list is gone or not, and whether the list is empty or
\* not.
C19_NoFault ==
    lastOp.op \in {"update_beholders", "update_beholder", "get_beholder",
                   "get_any_beholder"}
    => ~fault

\* ----------------------------------------------------------------------
\* C20. get_beholder(target) returns the first beholder, in the order of
\* the list, that is there and is further from target than from the
\* player, and nullptr if there is none: with the beholders <<A, B>> both
\* keeping the player from the move it returns A.  The beholders, the
\* monsters, the positions and target determine the value.
KeepsFrom(m, target) ==
    /\ monster_by_mid(m) # NullMon
    /\ grid_distance(where.you, where.mon[m]) <
           grid_distance(target, where.mon[m])

Keepers == {i \in DOMAIN beholders : KeepsFrom(beholders[i], lastOp.target)}

C20_FirstBlockingBeholder ==
    lastOp.op = "get_beholder"
    => /\ Keepers = {} => result = NullMon
       /\ Keepers # {} => /\ result \in Mids
                          /\ \E i \in Keepers :
                                /\ result = beholders[i]
                                /\ \A j \in Keepers : i <= j

\* Two beholders both keep the player from the move and the first one is
\* returned.
C20_Witness ==
    /\ lastOp.op = "get_beholder"
    /\ Len(beholders) = 2
    /\ Keepers = {1, 2}
    /\ result = beholders[1]

\* ----------------------------------------------------------------------
\* C21 as stated: get_beholder(target) returns a beholder only if it is
\* there, alive, and further from target than from the player; it returns
\* nullptr when no beholder is all of that, as when the list is empty.
Blocker(m, target) ==
    /\ mons[m].exists /\ mons[m].alive
    /\ grid_distance(target, where.mon[m]) >
           grid_distance(where.you, where.mon[m])

C21_Original ==
    lastOp.op = "get_beholder"
    => /\ result # NullMon => /\ Holds(result)
                              /\ Blocker(result, lastOp.target)
       /\ (\A i \in DOMAIN beholders : ~Blocker(beholders[i], lastOp.target))
              => result = NullMon

\* ----------------------------------------------------------------------
\* C22. The const methods possible_beholder(), get_beholder(),
\* beheld_by(), beheld() and get_any_beholder() leave the beholders, the
\* duration and the immunity as they were, print nothing and, called in a
\* state between two calls, do not crash.
ConstMethods ==
    {"possible_beholder", "get_beholder", "beheld_by", "beheld",
     "get_any_beholder"}

C22_ConstMethodsChangeNothing ==
    [][ lastOp'.op \in ConstMethods
        => /\ beholders' = beholders
           /\ duration' = duration
           /\ immune' = immune
           /\ msgs' = <<>>
           /\ fault' = fault ]_vars

\* beheld_by() answered true about the one beholder on the list while
\* another monster is no possible beholder.
C22_Witness ==
    /\ lastOp.op = "beheld_by"
    /\ result = TRUE
    /\ Len(beholders) = 1
    /\ immune = 0
    /\ duration = MesmeriseMin
    /\ \E m \in Mids : ~Holds(m) /\ ~possible_beholder(monster_by_mid(m))

\* ----------------------------------------------------------------------
\* C23 as stated: _removed_beholder() called again, with the list empty
\* and the duration 0 since the call before, leaves the duration and the
\* immunity as they are and prints nothing.
C23_Original ==
    [][ (lastOp'.op = "_removed_beholder" /\ lastOp'.again
            /\ beholders = <<>> /\ duration = 0)
        => /\ duration' = duration
           /\ immune' = immune
           /\ msgs' = <<>> ]_vars

\* C23. _removed_beholder(quiet) does not ask whether the duration is 0
\* already.  With the list empty every call, the first and any further
\* one, leaves the duration 0, draws the immunity from
\* ImmuneMin..ImmuneMax anew and, unless quiet, prints the message of the
\* full release; with the list non-empty every call changes and prints
\* nothing.
C23_ExpireRepeats ==
    [][ lastOp'.op = "_removed_beholder"
        => /\ beholders' = beholders
           /\ IF beholders = <<>>
              THEN /\ duration' = 0
                   /\ immune' \in ImmuneMin..ImmuneMax
                   /\ IF lastOp'.quiet THEN msgs' = <<>>
                      ELSE /\ Len(msgs') = 1
                           /\ msgs'[1].kind = "fully_released"
              ELSE /\ duration' = duration
                   /\ immune' = immune
                   /\ msgs' = <<>> ]_vars

\* A further call, not quiet, with the list empty and the duration 0
\* already, printed the message of the full release.
C23_Witness ==
    /\ lastOp.op = "_removed_beholder"
    /\ lastOp.again
    /\ ~lastOp.quiet
    /\ ~lastOp.held
    /\ duration = 0
    /\ immune = ImmuneMax
    /\ Kinds("fully_released") = {1}

\* ----------------------------------------------------------------------
\* C24 as stated: a remove_beholder(), update_beholders(),
\* update_beholder() or clear_beholders() that empties a non-empty list
\* leaves the immunity in ImmuneMin..ImmuneMax, and one that does not
\* leaves the immunity as it was.
Releasing ==
    {"remove_beholder", "update_beholders", "update_beholder",
     "clear_beholders"}

Emptied == beholders # <<>> /\ beholders' = <<>>

C24_Original ==
    [][ lastOp'.op \in Releasing
        => IF Emptied THEN immune' \in ImmuneMin..ImmuneMax
           ELSE immune' = immune ]_vars

\* C24. A method that empties a non-empty list leaves the immunity in
\* ImmuneMin..ImmuneMax; clear_beholders() draws the immunity from that
\* range on every call, with the list empty before it as well; any other
\* call that does not empty the list, add_beholder() included, leaves the
\* immunity as it was.
C24_ImmunityOnFullRelease ==
    [][ lastOp'.op \in Releasing \cup {"add_beholder"}
        => IF Emptied \/ lastOp'.op = "clear_beholders"
           THEN immune' \in ImmuneMin..ImmuneMax
           ELSE immune' = immune ]_vars

\* clear_beholders() has drawn the immunity with no beholder on the list.
C24_Witness ==
    /\ lastOp.op = "clear_beholders"
    /\ ~lastOp.held
    /\ beholders = <<>>
    /\ duration = 0
    /\ immune = ImmuneMax

\* ----------------------------------------------------------------------
\* C25 as stated: remove_beholder(mon) and update_beholder(mon) for a mon
\* that is no beholder, a possible beholder or not, there or gone, leave
\* the beholders, the duration and the immunity as they were, print
\* nothing and do not crash.
C25_NotHeldIsNoOp ==
    [][ (lastOp'.op \in {"remove_beholder", "update_beholder"}
            /\ ~Holds(lastOp'.mid))
        => /\ beholders' = beholders
           /\ duration' = duration
           /\ immune' = immune
           /\ msgs' = <<>>
           /\ ~fault' ]_vars

\* ----------------------------------------------------------------------
\* C26. In update_beholders(), when the message about a removed beholder
\* is printed, that beholder and every beholder behind it in the list that
\* is no possible beholder are off the list, every beholder in front of
\* it, not looked at yet, is still on it, and the duration is 0 exactly
\* when the list is empty: each erase and its quiet _removed_beholder(true)
\* come before the message, and no erase is made ahead of its turn.
Eligible(m) == possible_beholder(monster_by_mid(m))

SeenAt(k) ==
    SubSeq(beholders, 1, k - 1)
        \o SelectSeq(SubSeq(beholders, k + 1, Len(beholders)), Eligible)

C26_MutateThenNotify ==
    [][ lastOp'.op = "update_beholders"
        => \A i \in DOMAIN msgs' :
              msgs'[i].kind = "source_released"
              => /\ Holds(msgs'[i].mid)
                 /\ msgs'[i].beholders = SeenAt(find_first(You, msgs'[i].mid))
                 /\ (msgs'[i].duration = 0) = (msgs'[i].beholders = <<>>) ]_vars

\* Two beholders were removed in one pass: at the first message the other
\* one was still on the list, at the second the list was empty.
C26_Witness ==
    /\ lastOp.op = "update_beholders"
    /\ Len(msgs) >= 2
    /\ msgs[1].kind = "source_released"
    /\ Len(msgs[1].beholders) = 1
    /\ msgs[1].duration > 0
    /\ msgs[2].kind = "source_released"
    /\ msgs[2].mid = msgs[1].beholders[1]
    /\ msgs[2].beholders = <<>>
    /\ msgs[2].duration = 0

\* ----------------------------------------------------------------------
\* C27. update_beholders() goes through the list from the last index to
\* the first: the messages about removed beholders come in the reverse of
\* the order of the list, each is about a beholder that was no possible
\* beholder and is off the list afterwards, and the beholders left on the
\* list are in the order they were in before.
IndexOf(m) == find_first(You, m)

C28_QuietFinalize ==
    /\ [](\A i \in Kinds("fully_released") :
              msgs[i].beholders = <<>> /\ msgs[i].duration = 0)
    /\ [][ (lastOp'.op = "_removed_beholder" /\ lastOp'.quiet)
           => /\ msgs' = <<>>
              /\ beholders' = beholders
              /\ IF beholders = <<>>
                 THEN duration' = 0
                 ELSE duration' = duration /\ immune' = immune ]_vars

\* The first, quiet call after the last beholder was erased: the duration
\* is 0 and nothing was printed.
C28_Witness ==
    /\ lastOp.op = "_removed_beholder"
    /\ lastOp.quiet
    /\ ~lastOp.held
    /\ ~lastOp.again
    /\ duration = 0
    /\ immune = ImmuneMin
    /\ msgs = <<>>

\* ----------------------------------------------------------------------
\* C29 as stated: every call of a method returns, from every state and
\* for every argument: update_beholders() after one pass over the list,
\* the others after at most one scan of it.
Methods ==
    {"add_beholder", "remove_beholder", "clear_beholders",
     "update_beholders", "update_beholder"}

C29_EveryCallReturns ==
    [][ lastOp'.op \in Methods => ~fault' ]_vars

\* ----------------------------------------------------------------------
\* C30. With the world as it is throughout the call, update_beholders()
\* leaves on the list exactly the beholders that are possible beholders, in
\* the order they were in: each one that is not has been removed and none
\* that is has been.
C30_ReconcilePostcondition ==
    [][ (lastOp'.op = "update_beholders" /\ ~fault')
        => beholders' = SelectSeq(beholders, Eligible) ]_vars

\* A pass that removed one beholder and kept the other.
C30_Witness ==
    /\ lastOp.op = "update_beholders"
    /\ lastOp.held
    /\ Len(beholders) = 1
    /\ Eligible(beholders[1])
    /\ \E m \in Mids : ~Holds(m) /\ ~Eligible(m) /\ Released(m) # {}

\* ----------------------------------------------------------------------
\* C31. If from some point on every beholder is no possible beholder and
\* no add_beholder() gets past the sanctuary test any more, then, with
\* update_beholders() called turn after turn, the list is eventually empty
\* and the duration 0, and both stay so.  One call of update_beholders()
\* made while no beholder is a possible beholder is enough: it returns
\* with the list empty and the duration 0.
Stuck == \A i \in DOMAIN beholders : ~Eligible(beholders[i])

Engaged == lastOp.op = "add_beholder" /\ ~Blocked(lastOp)

C31_EventualRelease ==
    /\ (<>[](Stuck /\ ~Engaged)) => <>[](beholders = <<>> /\ duration = 0)
    /\ [][ (lastOp'.op = "update_beholders" /\ Stuck)
           => (beholders' = <<>> /\ duration' = 0) ]_vars

\* One call removed both beholders, confused by then, and ended the
\* mesmerisation.
C31_Witness ==
    /\ lastOp.op = "update_beholders"
    /\ lastOp.held
    /\ \A m \in Mids : mons[m].confused
    /\ Cardinality(Kinds("source_released")) = 2
    /\ beholders = <<>>
    /\ duration = 0

\* ----------------------------------------------------------------------
\* C32. Every call prints the message of the full release exactly once if
\* it is a remove_beholder(), update_beholders() or update_beholder() that
\* took the list from non-empty to empty, and not at all otherwise: so
\* over any sequence of calls there are as many such messages as there
\* were such calls, clear_beholders() prints none, and a call that removed
\* no beholder prints none.
Removing == {"remove_beholder", "update_beholders", "update_beholder"}

C32_FullReleaseCount ==
    [][ Cardinality(Kinds("fully_released")') =
            IF lastOp'.op \in Removing /\ Emptied THEN 1 ELSE 0 ]_vars

\* remove_beholder() took the last beholder off the list and printed the
\* message of the full release once.
C32_Witness ==
    /\ lastOp.op = "remove_beholder"
    /\ lastOp.held
    /\ beholders = <<>>
    /\ Len(msgs) = 1
    /\ msgs[1].kind = "fully_released"

\* ----------------------------------------------------------------------
\* C33. update_beholders() called while every beholder is a possible
\* beholder, or while the player is not mesmerised, and update_beholder()
\* called for a monster that is a possible beholder, leave the beholders,
\* the duration and the immunity as they were and print nothing.
AllEligible == \A i \in DOMAIN beholders : Eligible(beholders[i])

C33_EligibleLeftAlone ==
    [][ ( \/ /\ lastOp'.op = "update_beholders"
             /\ (AllEligible \/ duration = 0)
          \/ /\ lastOp'.op = "update_beholder"
             /\ lastOp'.mid # NullMon
             /\ Eligible(lastOp'.mid) )
        => /\ beholders' = beholders
           /\ duration' = duration
           /\ immune' = immune
           /\ msgs' = <<>>
           /\ ~fault' ]_vars

\* update_beholders() has gone through two beholders, both possible
\* beholders, and has left them on the list.
C33_Witness ==
    /\ lastOp.op = "update_beholders"
    /\ lastOp.held
    /\ Len(beholders) = 2
    /\ AllEligible
    /\ duration = MesmeriseMin
    /\ msgs = <<>>

\* ----------------------------------------------------------------------
\* C34. A remove_beholder(), update_beholders() or update_beholder() that
\* takes beholders off the list and leaves at least one on it leaves the
\* duration and the immunity as they were, and the beholders left are in
\* the order they were in before the call.
C34_RemovalKeepsTheRest ==
    [][ ( /\ lastOp'.op \in Removing
          /\ Len(beholders') < Len(beholders)
          /\ beholders' # <<>> )
        => /\ duration' = duration
           /\ immune' = immune
           /\ \A a \in DOMAIN beholders' : Holds(beholders'[a])
           /\ \A a, b \in DOMAIN beholders' :
                 a < b => IndexOf(beholders'[a]) < IndexOf(beholders'[b]) ]_vars

\* update_beholders() has removed monster 1 from a list of three and has
\* kept the two others, the immunity left from an earlier release.
C34_Witness ==
    /\ lastOp.op = "update_beholders"
    /\ Len(beholders) = 2
    /\ Released(1) # {}
    /\ Kinds("fully_released") = {}
    /\ duration = MesmeriseMin
    /\ immune = ImmuneMin

Starts(op) == op.op = "add_beholder" /\ ~Blocked(op) /\ beholders = <<>>

C36_StartedMessage ==
    [][ lastOp'.op = "add_beholder"
        => /\ Cardinality(Kinds("engagement_started")') =
                 IF Starts(lastOp') /\ ~lastOp'.axe THEN 1 ELSE 0
           /\ (Starts(lastOp') /\ lastOp'.axe) => msgs' = <<>>
           /\ Extends(lastOp') => msgs' = <<>> ]_vars

\* A mesmerisation started in a sanctuary, through the axe, with no
\* message.
C36_Witness ==
    /\ lastOp.op = "add_beholder"
    /\ lastOp.axe
    /\ ~lastOp.held
    /\ sanctuary
    /\ beholders = <<lastOp.mid>>
    /\ msgs = <<>>

\* ----------------------------------------------------------------------
\* C37. A call prints the message about a monster only if it has removed
\* that monster from the list and the monster is there, alive, a siren,
\* not submerged and in a cell the player sees; a beholder that is removed
\* and fails one of these, any beholder that is no siren for one, gets no
\* message, and no message is about anything but a monster.
C37_MessageOnlyIfNotifiable ==
    [][ lastOp'.op \in Removing
        => /\ \A m \in Mids :
                /\ Released(m)' # {}
                   => (Holds(m) /\ ~Holds(m)' /\ Notifiable(m))
                /\ (Holds(m) /\ ~Holds(m)' /\ ~Notifiable(m))
                   => Released(m)' = {}
           /\ \A i \in Kinds("source_released")' : msgs'[i].mid \in Mids ]_vars

\* update_beholder() has removed monster 1, the only beholder, alive and
\* in sight but no siren: the one message is that of the full release.
C37_Witness ==
    /\ lastOp.op = "update_beholder"
    /\ lastOp.mid = 1
    /\ lastOp.held
    /\ beholders = <<>>
    /\ mons[1].alive /\ ~mons[1].siren
    /\ ~mons[1].submerged /\ mons[1].see_cell
    /\ Kinds("source_released") = {}
    /\ Kinds("fully_released") = {1}

\* ----------------------------------------------------------------------
\* C38. In arena mode possible_beholder() is false for every monster and
\* for none, with the demon axe or without it, and update_beholders()
\* called with beholders on the list removes them all: it returns with the
\* list empty and the duration 0.
C38_ArenaReleasesAll ==
    /\ [](arena => \A m \in Mids \cup {NullMon} : ~possible_beholder(m))
    /\ []((arena /\ lastOp.op = "possible_beholder") => result = FALSE)
    /\ [][ (arena /\ lastOp'.op = "update_beholders" /\ beholders # <<>>)
           => /\ beholders' = <<>>
              /\ duration' = 0
              /\ ~fault' ]_vars

\* In arena mode, the demon axe equipped, update_beholders() has removed
\* two sirens that nothing else would have made ineligible.
C38_Witness ==
    /\ arena /\ demonAxe
    /\ ~sanctuary /\ ~silencedYou
    /\ \A m \in Mids : mons[m] = Siren
    /\ lastOp.op = "update_beholders"
    /\ lastOp.held
    /\ Cardinality(Kinds("source_released")) = 2
    /\ beholders = <<>>
    /\ duration = 0

\* ----------------------------------------------------------------------
\* C39. get_any_beholder() returns nullptr when the list is empty and
\* otherwise whatever monster_by_mid() finds for the first entry alone:
\* nullptr when that monster is gone, whether or not a later beholder is
\* still there.
C39_FirstBeholderOnly ==
    (lastOp.op = "get_any_beholder")
    => result = IF beholders = <<>> THEN NullMon
                ELSE IF mons[beholders[1]].exists THEN beholders[1]
                ELSE NullMon

\* The first beholder is gone and the second is there: the call has
\* returned nullptr.
C39_Witness ==
    /\ lastOp.op = "get_any_beholder"
    /\ Len(beholders) = 2
    /\ ~mons[beholders[1]].exists
    /\ mons[beholders[2]].exists
    /\ result = NullMon

====
